---- MODULE Spec2Model ----
(***************************************************************************)
(* Encryption-key bootstrap of the expo-starter frontend                   *)
(* (app/_layout.tsx, RootLayoutNav).                                       *)
(*                                                                         *)
(* The component keeps three pieces of React state (initializationStatus,  *)
(* isLoading, error) and two refs (initializationCompleted,                *)
(* initializationAttempted).  Its handlers are closures created by a       *)
(* render: they read isLoading and identity as that render saw them.       *)
(* A state update becomes visible to handlers only after the next render.  *)
(* Every `await` of initAesKey / handleContinueWithLocalKey is a point     *)
(* where the handler is suspended; the model has one action per            *)
(* continuation.                                                           *)
(***************************************************************************)
EXTENDS Naturals, FiniteSets, Sequences

\* ---------------------------------------------------------------- bounds
\* number of bootstrap attempts (automatic, Retry, ContinueWithLocalKey)
MaxAttempts == 3
\* number of changes the auth context makes after it became ready
MaxAuthChanges == 1
\* number of bootstrap attempts in the runs checked for termination
MaxLiveAttempts == 2

\* ------------------------------------------------------------- constants
NoIdentity == "none"
Identities == {"alice"}
NoError == "none"
NoPublicKey == "none"
\* encryption keys the backend may hold (keysReply.public_key)
BackendPublicKeys == {"pkA"}
\* the transport public key of the auth context, once generated
TransportPublicKey == "tpk"

NoKey == [kind |-> "none", by |-> 0]
\* the key the backend already holds for this principal, after unwrapping
ExistingKey == [kind |-> "existing", by |-> 0]
NoCipher == [key |-> NoKey, under |-> NoPublicKey]

AttemptIds == 1..MaxAttempts

\* ----------------------------------------------------------------- state
VARIABLES
    isReady,                  \* useAuth().isReady
    identity,                 \* useAuth().identity
    transportKey,             \* transport public key held by the auth context
    authChanges,              \* changes of the auth context so far: each one
                              \* hands out new callback objects
    backendPublicKey,         \* the encryption public key of the backend canister
    aesKey,                   \* the symmetric key store of the auth context
    initializationStatus,     \* useState('')
    isLoading,                \* useState(false)
    error,                    \* useState<Error | null>(null)
    initializationCompleted,  \* useRef(false)
    initializationAttempted,  \* useRef(false)
    rendered,                 \* what the last render saw (the closures' view)
    attempts,                 \* one record per call of a handler that passed its guard
    nAttempts,                \* attempts started so far
    page,                     \* the redirect landing page (its script and DOM)
    loggedOut                 \* the LoggedOut component

authVars == <<isReady, identity, transportKey, authChanges,
              backendPublicKey>>
stateVars == <<initializationStatus, isLoading, error>>
refVars == <<initializationCompleted, initializationAttempted>>
vars == <<isReady, identity, transportKey, authChanges,
          backendPublicKey, aesKey,
          initializationStatus, isLoading, error, initializationCompleted,
          initializationAttempted, rendered, attempts, nAttempts,
          page, loggedOut>>
\* the components that are not part of RootLayoutNav
elsewhere == <<page, loggedOut>>
\* a component that is not on screen / a page that is not open
NoPage == [pc |-> "absent"]
NoLoggedOut == [mounted |-> FALSE]

\* ------------------------------------------------------- status surface
\* initializationStatus: a stage text, or a failure prefix with the error
Stage(t) == [text |-> t, err |-> NoError]
FailedStage(prefix, e) == [text |-> prefix, err |-> e]

InitFailPrefix == "Failed to initialize AES key: "
LocalFailPrefix == "Failed to generate local AES key: "

\* which of the four returns of RootLayoutNav a render takes
Screen(ready, loading, err) ==
    IF ~ready THEN "spinner"
    ELSE IF loading THEN "loading"
    ELSE IF err # NoError THEN "error"
    ELSE "app"

\* BootstrapStatus as the component exposes it
Status ==
    IF isLoading THEN "InProgress"
    ELSE IF error # NoError THEN "Failed"
    ELSE IF initializationCompleted THEN "Completed"
    ELSE "NotStarted"

\* ------------------------------------------------------------- attempts
IdleAttempt ==
    [trigger |-> "none", pc |-> "idle", identity |-> NoIdentity,
     fetchCalls |-> 0, saveCalls |-> 0, tpk |-> NoPublicKey,
     replied |-> FALSE, public_key |-> NoPublicKey,
     encrypted_aes_key |-> FALSE, encrypted_key |-> FALSE,
     key |-> NoKey, saved |-> NoCipher,
     stage |-> Stage(""), err |-> NoError, outcome |-> "none",
     detail |-> TRUE]

InFlight(a) == attempts[a].pc \notin {"idle", "done"}
Done(a) == attempts[a].pc = "done"

\* The log keeps every detail of the attempts in flight and of the attempt
\* that finished last; of the attempts that finished earlier it keeps the
\* trigger and the outcome.
Summary(r) ==
    IF r.pc = "done"
    THEN [IdleAttempt EXCEPT !.trigger = r.trigger, !.pc = "done",
                             !.outcome = r.outcome, !.detail = FALSE]
    ELSE r

Finish(a, rec) == [b \in AttemptIds |-> IF b = a THEN rec ELSE Summary(attempts[b])]

\* --------------------------------------------- auth context (key store)
\* AesKeyStore.generate(): a new random key, overwriting any existing one
GeneratedKey(a) == [kind |-> "generated", by |-> a]
\* AesKeyStore.encryptForRemote(targetPublicKey)
EncryptForRemote(k, pk) == [key |-> k, under |-> pk]

\* ------------------------------------------------------------ initAesKey
\* the call of line 96 left out
ClearAesRawKeySkipped(k) == k

\* line 96: clearAesRawKey()
ClearAesRawKey(k) == NoKey

\* the finally of lines 140-142 left out
LoadingAfterAttemptKept(loading) == loading

\* lines 140-142 / 181-183: finally { setIsLoading(false) }
LoadingAfterAttempt(loading) == FALSE

\* the identity test of line 87 dropped: every attempt takes the backend path
HasIdentityAlways(id) == TRUE

\* line 87: if (!identity)
HasIdentity(id) == id # NoIdentity

\* the transport public key passed on in place of keysReply.public_key
ReplyPublicKeyIsTransportKey(r) == r.tpk

\* line 103: const publicKey = keysReply.public_key
ReplyPublicKey(r) == r.public_key

\* the branches of line 112 swapped
HasWrappedKeyNegated(r) == ~(r.encrypted_aes_key /\ r.encrypted_key)

\* line 112: if (encryptedAesKey && encryptedKey)
HasWrappedKey(r) == r.encrypted_aes_key /\ r.encrypted_key

\* lines 135-142: catch (err) { ... } finally { setIsLoading(false) }
Fail(a, rec, prefix, e) ==
    /\ initializationStatus' = FailedStage(prefix, e)
    /\ error' = e
    /\ isLoading' = LoadingAfterAttempt(isLoading)
    /\ attempts' = Finish(a, [rec EXCEPT !.pc = "done", !.err = e,
                                         !.outcome = "Failed"])
    /\ UNCHANGED initializationCompleted

\* lines 133-134 / 91-93 / 175-176, then finally { setIsLoading(false) }
Complete(a, rec, text) ==
    /\ initializationStatus' = Stage(text)
    /\ initializationCompleted' = TRUE
    /\ isLoading' = LoadingAfterAttempt(isLoading)
    /\ attempts' = Finish(a, [rec EXCEPT !.pc = "done", !.outcome = "Completed"])
    /\ UNCHANGED error

\* lines 78-102: initAesKey up to its first await, called with the closure's
\* isLoading and identity
InitAesKey(trig, cIsLoading, cIdentity) ==
    IF cIsLoading
    THEN UNCHANGED <<aesKey, stateVars, refVars, attempts, nAttempts>>
    ELSE LET a == nAttempts + 1
             rec == [IdleAttempt EXCEPT !.trigger = trig, !.identity = cIdentity]
         IN /\ nAttempts' = a
            /\ initializationAttempted' = TRUE
            /\ IF ~HasIdentity(cIdentity)
               THEN /\ error' = NoError
                    /\ isLoading' = TRUE
                    /\ initializationStatus' = Stage("Generating new AES key...")
                    /\ attempts' = [attempts EXCEPT ![a] =
                          [rec EXCEPT !.pc = "genLocal",
                                      !.stage = Stage("Generating new AES key...")]]
                    /\ UNCHANGED <<aesKey, initializationCompleted>>
               ELSE IF transportKey = NoPublicKey
               THEN \* getTransportPublicKey() throws before the first await
                    /\ aesKey' = ClearAesRawKey(aesKey)
                    /\ Fail(a, [rec EXCEPT !.stage = Stage("Fetching keys from backend...")],
                            InitFailPrefix, "NotGenerated")
               ELSE /\ aesKey' = ClearAesRawKey(aesKey)
                    /\ error' = NoError
                    /\ isLoading' = TRUE
                    /\ initializationStatus' = Stage("Fetching keys from backend...")
                    /\ attempts' = [attempts EXCEPT ![a] =
                          [rec EXCEPT !.pc = "fetch", !.fetchCalls = 1,
                                      !.tpk = transportKey,
                                      !.stage = Stage("Fetching keys from backend...")]]
                    /\ UNCHANGED initializationCompleted

\* line 90 returned: lines 91-93 and the finally
InitGenerateAesKeyReturns(a) ==
    /\ attempts[a].pc = "genLocal"
    /\ attempts[a].trigger # "local"
    /\ aesKey' = GeneratedKey(a)
    /\ Complete(a, [attempts[a] EXCEPT !.key = GeneratedKey(a)], "AES key generated")
    /\ UNCHANGED <<elsewhere, authVars, initializationAttempted, rendered, nAttempts>>

\* line 90 threw
InitGenerateAesKeyThrows(a) ==
    /\ attempts[a].pc = "genLocal"
    /\ attempts[a].trigger # "local"
    /\ Fail(a, attempts[a], InitFailPrefix, "CryptoError")
    /\ UNCHANGED <<elsewhere, authVars, aesKey, initializationAttempted, rendered, nAttempts>>

\* line 102 returned: lines 103-115 or 103-124
FetchKeysReturns(a) ==
    /\ attempts[a].pc = "fetch"
    /\ \E ea \in BOOLEAN, ek \in BOOLEAN :
         LET got == [attempts[a] EXCEPT !.replied = TRUE,
                                        !.public_key = backendPublicKey,
                                        !.encrypted_aes_key = ea,
                                        !.encrypted_key = ek]
         IN IF HasWrappedKey(got)
            THEN /\ initializationStatus' = Stage("Decrypting existing AES key...")
                 /\ attempts' = [attempts EXCEPT ![a] =
                       [got EXCEPT !.pc = "decrypt",
                                   !.stage = Stage("Decrypting existing AES key...")]]
            ELSE /\ initializationStatus' = Stage("Generating and encrypting new AES key...")
                 /\ attempts' = [attempts EXCEPT ![a] =
                       [got EXCEPT !.pc = "genEnc",
                                   !.stage = Stage("Generating and encrypting new AES key...")]]
    /\ UNCHANGED <<elsewhere, authVars, aesKey, isLoading, error, refVars, rendered, nAttempts>>

\* line 102 threw
FetchKeysFails(a) ==
    /\ attempts[a].pc = "fetch"
    /\ Fail(a, attempts[a], InitFailPrefix, "NetworkError")
    /\ UNCHANGED <<elsewhere, authVars, aesKey, initializationAttempted, rendered, nAttempts>>

\* line 115 returned: lines 133-134 and the finally
DecryptExistingAesKeyReturns(a) ==
    /\ attempts[a].pc = "decrypt"
    /\ aesKey' = ExistingKey
    /\ Complete(a, [attempts[a] EXCEPT !.key = ExistingKey],
                "AES key initialization completed")
    /\ UNCHANGED <<elsewhere, authVars, initializationAttempted, rendered, nAttempts>>

\* line 115 threw
DecryptExistingAesKeyThrows(a) ==
    /\ attempts[a].pc = "decrypt"
    /\ Fail(a, attempts[a], InitFailPrefix, "CryptoError")
    /\ UNCHANGED <<elsewhere, authVars, aesKey, initializationAttempted, rendered, nAttempts>>

\* line 124 returned: lines 128-130
GenerateAndEncryptAesKeyReturns(a) ==
    /\ attempts[a].pc = "genEnc"
    /\ aesKey' = GeneratedKey(a)
    /\ initializationStatus' = Stage("Saving encrypted AES key...")
    /\ attempts' = [attempts EXCEPT ![a] =
          [attempts[a] EXCEPT !.pc = "save", !.key = GeneratedKey(a),
                              !.saveCalls = @ + 1,
                              !.saved = EncryptForRemote(GeneratedKey(a), ReplyPublicKey(attempts[a])),
                              !.stage = Stage("Saving encrypted AES key...")]]
    /\ UNCHANGED <<elsewhere, authVars, isLoading, error, refVars, rendered, nAttempts>>

\* line 124 threw
GenerateAndEncryptAesKeyThrows(a) ==
    /\ attempts[a].pc = "genEnc"
    /\ Fail(a, attempts[a], InitFailPrefix, "CryptoError")
    /\ UNCHANGED <<elsewhere, authVars, aesKey, initializationAttempted, rendered, nAttempts>>

\* line 130 returned: lines 133-134 and the finally
SaveEncryptedKeyReturns(a) ==
    /\ attempts[a].pc = "save"
    /\ Complete(a, attempts[a], "AES key initialization completed")
    /\ UNCHANGED <<elsewhere, authVars, aesKey, initializationAttempted, rendered, nAttempts>>

\* line 130 threw
SaveEncryptedKeyFails(a) ==
    /\ attempts[a].pc = "save"
    /\ Fail(a, attempts[a], InitFailPrefix, "NetworkError")
    /\ UNCHANGED <<elsewhere, authVars, aesKey, initializationAttempted, rendered, nAttempts>>

\* ------------------------------------------------------------- handlers
\* lines 163-165: handleRetry calls the initAesKey of the render it belongs to
HandleRetry == InitAesKey("retry", rendered.isLoading, rendered.identity)

\* handleContinueWithLocalKey going through initAesKey like handleRetry
HandleContinueWithLocalKeyViaInit ==
    InitAesKey("local", rendered.isLoading, rendered.identity)

\* lines 168-174: handleContinueWithLocalKey up to its await
HandleContinueWithLocalKey ==
    LET a == nAttempts + 1
    IN /\ nAttempts' = a
       /\ error' = NoError
       /\ initializationStatus' = Stage("Generating local AES key...")
       /\ isLoading' = TRUE
       /\ attempts' = [attempts EXCEPT ![a] =
             [IdleAttempt EXCEPT !.trigger = "local", !.pc = "genLocal",
                                 !.identity = rendered.identity,
                                 !.stage = Stage("Generating local AES key...")]]
       /\ UNCHANGED <<aesKey, refVars>>

\* line 220: the Retry button of the error screen
PressRetry ==
    /\ rendered.screen = "error"
    /\ nAttempts < MaxAttempts
    /\ HandleRetry
    /\ UNCHANGED <<elsewhere, authVars, rendered>>

\* lines 224-227: the Continue with Local Key button of the error screen
PressContinueWithLocalKey ==
    /\ rendered.screen = "error"
    /\ nAttempts < MaxAttempts
    /\ HandleContinueWithLocalKey
    /\ UNCHANGED <<elsewhere, authVars, rendered>>

\* line 174 returned: lines 175-176 and the finally
LocalGenerateAesKeyReturns(a) ==
    /\ attempts[a].pc = "genLocal"
    /\ attempts[a].trigger = "local"
    /\ aesKey' = GeneratedKey(a)
    /\ Complete(a, [attempts[a] EXCEPT !.key = GeneratedKey(a)], "Local AES key generated")
    /\ UNCHANGED <<elsewhere, authVars, initializationAttempted, rendered, nAttempts>>

\* line 174 threw: lines 177-182
LocalGenerateAesKeyThrows(a) ==
    /\ attempts[a].pc = "genLocal"
    /\ attempts[a].trigger = "local"
    /\ Fail(a, attempts[a], LocalFailPrefix, "CryptoError")
    /\ UNCHANGED <<elsewhere, authVars, aesKey, initializationAttempted, rendered, nAttempts>>

\* --------------------------------------------------------------- render
\* the initializationAttempted test of line 155 dropped
EffectGuardReadyOnly(ready, attempted) == ready

\* line 155: if (!isReady || initializationAttempted.current) return
EffectGuard(ready, attempted) == ready /\ ~attempted

\* the state or the auth context differs from what the last render saw
RenderPending ==
    \/ ~rendered.mounted
    \/ rendered.isReady # isReady
    \/ rendered.isLoading # isLoading
    \/ rendered.identity # identity
    \/ rendered.authChanges # authChanges
    \/ rendered.screen # Screen(isReady, isLoading, error)

\* line 160: the dependencies [isReady, initAesKey] of the effect changed;
\* initAesKey is re-created when identity, isLoading or a callback changed
\* (lines 143-151)
EffectDepsChanged ==
    \/ ~rendered.mounted
    \/ rendered.isReady # isReady
    \/ rendered.isLoading # isLoading
    \/ rendered.identity # identity
    \/ rendered.authChanges # authChanges

\* lines 60-75, 186-281: a render of RootLayoutNav with the current state,
\* followed by the auto-initialize effect of lines 154-160
Render ==
    /\ RenderPending
    /\ rendered' = [mounted |-> TRUE, isReady |-> isReady, isLoading |-> isLoading,
                    identity |-> identity, authChanges |-> authChanges,
                    screen |-> Screen(isReady, isLoading, error)]
    /\ IF /\ EffectDepsChanged
          /\ EffectGuard(isReady, initializationAttempted)
          /\ nAttempts < MaxAttempts
       THEN InitAesKey("auto", isLoading, identity)
       ELSE UNCHANGED <<aesKey, stateVars, refVars, attempts, nAttempts>>
    /\ UNCHANGED <<elsewhere, authVars>>

\* --------------------------------------------------------- auth context
\* useAuth() finishes restoring the session: isReady becomes true
AuthReady ==
    /\ ~isReady
    /\ isReady' = TRUE
    /\ identity' \in Identities \cup {NoIdentity}
    /\ transportKey' \in {NoPublicKey, TransportPublicKey}
    /\ UNCHANGED <<elsewhere, authChanges, backendPublicKey, aesKey, stateVars, refVars, rendered,
                   attempts, nAttempts>>

\* login or logout after the context became ready
IdentityChanges ==
    /\ isReady
    /\ authChanges < MaxAuthChanges
    /\ authChanges' = authChanges + 1
    /\ identity' \in (Identities \cup {NoIdentity}) \ {identity}
    /\ UNCHANGED <<elsewhere, isReady, transportKey, backendPublicKey, aesKey,
                   stateVars, refVars,
                   rendered, attempts, nAttempts>>

\* useAuth() hands out new function objects for its callbacks, the identity
\* staying the same
CallbacksChange ==
    /\ isReady
    /\ authChanges < MaxAuthChanges
    /\ authChanges' = authChanges + 1
    /\ UNCHANGED <<elsewhere, isReady, identity, transportKey, backendPublicKey, aesKey,
                   stateVars, refVars,
                   rendered, attempts, nAttempts>>

\* RootLayoutNav before its first render
InitRootLayoutNav ==
    /\ isReady = FALSE
    /\ identity = NoIdentity
    /\ transportKey = NoPublicKey
    /\ authChanges = 0
    /\ backendPublicKey \in BackendPublicKeys
    /\ aesKey = NoKey
    /\ initializationStatus = Stage("")
    /\ isLoading = FALSE
    /\ error = NoError
    /\ initializationCompleted = FALSE
    /\ initializationAttempted = FALSE
    /\ rendered = [mounted |-> FALSE, isReady |-> FALSE, isLoading |-> FALSE,
                   identity |-> NoIdentity, authChanges |-> 0,
                   screen |-> "none"]
    /\ attempts = [a \in AttemptIds |-> IdleAttempt]
    /\ nAttempts = 0

Init ==
    /\ InitRootLayoutNav
    /\ page = NoPage
    /\ loggedOut = NoLoggedOut

Next ==
    \/ \E a \in AttemptIds : InitGenerateAesKeyReturns(a)
    \/ \E a \in AttemptIds : InitGenerateAesKeyThrows(a)
    \/ \E a \in AttemptIds : FetchKeysReturns(a)
    \/ \E a \in AttemptIds : FetchKeysFails(a)
    \/ \E a \in AttemptIds : DecryptExistingAesKeyReturns(a)
    \/ \E a \in AttemptIds : DecryptExistingAesKeyThrows(a)
    \/ \E a \in AttemptIds : GenerateAndEncryptAesKeyReturns(a)
    \/ \E a \in AttemptIds : GenerateAndEncryptAesKeyThrows(a)
    \/ \E a \in AttemptIds : SaveEncryptedKeyReturns(a)
    \/ \E a \in AttemptIds : SaveEncryptedKeyFails(a)
    \/ \E a \in AttemptIds : LocalGenerateAesKeyReturns(a)
    \/ \E a \in AttemptIds : LocalGenerateAesKeyThrows(a)
    \/ PressRetry
    \/ PressContinueWithLocalKey
    \/ Render
    \/ AuthReady
    \/ IdentityChanges
    \/ CallbacksChange

Spec == Init /\ [][Next]_vars

\* the pending key operation or backend call of attempt a returns or throws
AttemptStep(a) ==
    \/ InitGenerateAesKeyReturns(a)
    \/ InitGenerateAesKeyThrows(a)
    \/ FetchKeysReturns(a)
    \/ FetchKeysFails(a)
    \/ DecryptExistingAesKeyReturns(a)
    \/ DecryptExistingAesKeyThrows(a)
    \/ GenerateAndEncryptAesKeyReturns(a)
    \/ GenerateAndEncryptAesKeyThrows(a)
    \/ SaveEncryptedKeyReturns(a)
    \/ SaveEncryptedKeyFails(a)
    \/ LocalGenerateAesKeyReturns(a)
    \/ LocalGenerateAesKeyThrows(a)

\* the two buttons, in the runs checked for termination
LivePressRetry ==
    /\ nAttempts < MaxLiveAttempts
    /\ PressRetry

LivePressContinueWithLocalKey ==
    /\ nAttempts < MaxLiveAttempts
    /\ PressContinueWithLocalKey

NextLive ==
    \/ \E a \in AttemptIds : InitGenerateAesKeyReturns(a)
    \/ \E a \in AttemptIds : InitGenerateAesKeyThrows(a)
    \/ \E a \in AttemptIds : FetchKeysReturns(a)
    \/ \E a \in AttemptIds : FetchKeysFails(a)
    \/ \E a \in AttemptIds : DecryptExistingAesKeyReturns(a)
    \/ \E a \in AttemptIds : DecryptExistingAesKeyThrows(a)
    \/ \E a \in AttemptIds : GenerateAndEncryptAesKeyReturns(a)
    \/ \E a \in AttemptIds : GenerateAndEncryptAesKeyThrows(a)
    \/ \E a \in AttemptIds : SaveEncryptedKeyReturns(a)
    \/ \E a \in AttemptIds : SaveEncryptedKeyFails(a)
    \/ \E a \in AttemptIds : LocalGenerateAesKeyReturns(a)
    \/ \E a \in AttemptIds : LocalGenerateAesKeyThrows(a)
    \/ LivePressRetry
    \/ LivePressContinueWithLocalKey
    \/ Render
    \/ AuthReady
    \/ IdentityChanges
    \/ CallbacksChange

\* every awaited key operation and backend call eventually settles
SpecLive ==
    Init /\ [][NextLive]_vars /\ \A a \in AttemptIds : WF_vars(AttemptStep(a))

\* ================================================================ claims
LocalPathOf(a) ==
    LET r == attempts[a]
    IN /\ r.fetchCalls = 0
       /\ r.saveCalls = 0
       /\ r.saved = NoCipher
       /\ r.pc \in {"genLocal", "done"}
       /\ r.pc = "genLocal" => r.key = NoKey
       /\ r.pc = "done" =>
            \/ /\ r.outcome = "Completed"
               /\ r.key = GeneratedKey(a)
               /\ initializationCompleted
            \/ /\ r.outcome = "Failed"
               /\ r.err = "CryptoError"
               /\ r.key = NoKey

\* ===================================================================
\* The redirect landing page: text is a sequence of characters
\* ===================================================================
\* provider logins started on one page load
MaxClicks == 2
\* sign requests made to the public-key-only identity on one page load
MaxSignRequests == 2
\* delegations in a chain
MaxChainLen == 1

\* characters encodeURIComponent leaves alone
Unreserved ==
    {"a","b","c","d","e","f","g","h","i","j","k","l","m","n","o","p","q",
     "r","s","t","u","v","w","x","y","z","0","1","2","3","4","5","6","7",
     "8","9","A","B","C","D","E","F","G","H","I","J","K","L","M","N","O",
     "P","Q","R","S","T","U","V","W","X","Y","Z",
     "-","_",".","!","~","*","'","(",")"}

\* the UTF-8 byte of an ASCII character outside Unreserved, in hex
HexOfChar ==
    [c \in {"{", "}", "\"", ":", ",", "[", "]", "/", "?", "=", "&", "#", "%"} |->
        CASE c = "{" -> <<"7", "B">>
          [] c = "}" -> <<"7", "D">>
          [] c = "\"" -> <<"2", "2">>
          [] c = ":" -> <<"3", "A">>
          [] c = "," -> <<"2", "C">>
          [] c = "[" -> <<"5", "B">>
          [] c = "]" -> <<"5", "D">>
          [] c = "/" -> <<"2", "F">>
          [] c = "?" -> <<"3", "F">>
          [] c = "=" -> <<"3", "D">>
          [] c = "&" -> <<"2", "6">>
          [] c = "#" -> <<"2", "3">>
          [] c = "%" -> <<"2", "5">>]

\* a broken encoder: the text is put into the URL as it is
EncodeURIComponentRaw(text) == text

RECURSIVE EncodeURIComponent(_)
\* character by character; the text is halved to keep the evaluation shallow
EncodeURIComponent(text) ==
    IF text = <<>> THEN <<>>
    ELSE IF Len(text) = 1
         THEN IF text[1] \in Unreserved
              THEN text
              ELSE <<"%">> \o HexOfChar[text[1]]
         ELSE EncodeURIComponent(SubSeq(text, 1, Len(text) \div 2))
              \o EncodeURIComponent(SubSeq(text, Len(text) \div 2 + 1, Len(text)))

NoText == [ok |-> FALSE, value |-> <<>>]

\* a place near the middle of text that does not cut an escape "%XY"
MiddleOf(text) ==
    LET m == Len(text) \div 2
        k == IF text[m] = "%" THEN m - 1
             ELSE IF m >= 2 /\ text[m - 1] = "%" THEN m - 2
             ELSE m
    IN IF k = 0 THEN 3 ELSE k

RECURSIVE DecodeURIComponent(_)
\* decodeURIComponent: fails on a malformed escape
DecodeURIComponent(text) ==
    IF text = <<>> THEN [ok |-> TRUE, value |-> <<>>]
    ELSE IF text[1] = "%" /\ Len(text) <= 3
         THEN LET cs == {c \in DOMAIN HexOfChar :
                            Len(text) = 3 /\ HexOfChar[c] = <<text[2], text[3]>>}
              IN IF cs = {} THEN NoText
                 ELSE [ok |-> TRUE, value |-> <<CHOOSE c \in cs : TRUE>>]
         ELSE IF Len(text) = 1 THEN [ok |-> TRUE, value |-> text]
              ELSE LET k == MiddleOf(text)
                       left == DecodeURIComponent(SubSeq(text, 1, k))
                       right == DecodeURIComponent(SubSeq(text, k + 1, Len(text)))
                   IN IF left.ok /\ right.ok
                      THEN [ok |-> TRUE, value |-> left.value \o right.value]
                      ELSE NoText

\* ------------------------------------------------------------------ JSON
\* a JSON value: [t |-> "s", v |-> characters], [t |-> "a", v |-> values],
\* [t |-> "o", v |-> sequence of <<name, value>>]
JString(text) == [t |-> "s", v |-> text]
JArray(items) == [t |-> "a", v |-> items]
JObject(members) == [t |-> "o", v |-> members]

\* the texts of the model need no escaping inside a JSON string
Quote(text) == <<"\"">> \o text \o <<"\"">>

RECURSIVE JSONStringify(_), StringifyItems(_), StringifyMembers(_)
JSONStringify(j) ==
    CASE j.t = "s" -> Quote(j.v)
      [] j.t = "a" -> <<"[">> \o StringifyItems(j.v) \o <<"]">>
      [] j.t = "o" -> <<"{">> \o StringifyMembers(j.v) \o <<"}">>

StringifyItems(items) ==
    IF items = <<>> THEN <<>>
    ELSE JSONStringify(Head(items))
         \o (IF Tail(items) = <<>> THEN <<>>
             ELSE <<",">> \o StringifyItems(Tail(items)))

StringifyMembers(members) ==
    IF members = <<>> THEN <<>>
    ELSE Quote(Head(members)[1]) \o <<":">> \o JSONStringify(Head(members)[2])
         \o (IF Tail(members) = <<>> THEN <<>>
             ELSE <<",">> \o StringifyMembers(Tail(members)))

NoParse == [ok |-> FALSE, value |-> JString(<<>>), rest |-> <<>>]
Parsed(value, rest) == [ok |-> TRUE, value |-> value, rest |-> rest]

RECURSIVE ParseChars(_, _)
ParseChars(text, acc) ==
    IF text = <<>> THEN NoParse
    ELSE IF Head(text) = "\"" THEN Parsed(acc, Tail(text))
         ELSE ParseChars(Tail(text), Append(acc, Head(text)))

RECURSIVE ParseValue(_), ParseItems(_, _), ParseMembers(_, _)
ParseValue(text) ==
    IF text = <<>> THEN NoParse
    ELSE CASE Head(text) = "\"" ->
                LET r == ParseChars(Tail(text), <<>>)
                IN IF r.ok THEN Parsed(JString(r.value), r.rest) ELSE NoParse
           [] Head(text) = "[" ->
                IF Tail(text) # <<>> /\ Head(Tail(text)) = "]"
                THEN Parsed(JArray(<<>>), Tail(Tail(text)))
                ELSE ParseItems(Tail(text), <<>>)
           [] Head(text) = "{" ->
                IF Tail(text) # <<>> /\ Head(Tail(text)) = "}"
                THEN Parsed(JObject(<<>>), Tail(Tail(text)))
                ELSE ParseMembers(Tail(text), <<>>)
           [] OTHER -> NoParse

ParseItems(text, acc) ==
    LET r == ParseValue(text)
    IN IF ~r.ok \/ r.rest = <<>> THEN NoParse
       ELSE IF Head(r.rest) = ","
            THEN ParseItems(Tail(r.rest), Append(acc, r.value))
            ELSE IF Head(r.rest) = "]"
                 THEN Parsed(JArray(Append(acc, r.value)), Tail(r.rest))
                 ELSE NoParse

ParseMembers(text, acc) ==
    IF text = <<>> \/ Head(text) # "\"" THEN NoParse
    ELSE LET k == ParseChars(Tail(text), <<>>)
         IN IF ~k.ok \/ k.rest = <<>> \/ Head(k.rest) # ":" THEN NoParse
            ELSE LET r == ParseValue(Tail(k.rest))
                 IN IF ~r.ok \/ r.rest = <<>> THEN NoParse
                    ELSE IF Head(r.rest) = ","
                         THEN ParseMembers(Tail(r.rest),
                                           Append(acc, <<k.value, r.value>>))
                         ELSE IF Head(r.rest) = "}"
                              THEN Parsed(JObject(Append(acc, <<k.value, r.value>>)),
                                          Tail(r.rest))
                              ELSE NoParse

\* JSON.parse: the whole text must be one value
JSONParse(text) ==
    LET r == ParseValue(text)
    IN IF r.ok /\ r.rest = <<>> THEN r ELSE NoParse



\* ---------------------------------------------------------- query string
\* a query parameter as URLSearchParams.get returns it: null or a text
Absent == [present |-> FALSE, value |-> <<>>]
Param(text) == [present |-> TRUE, value |-> text]
\* JavaScript falsiness of `string | null`
Falsy(p) == ~p.present \/ p.value = <<>>

\* "app://cb" and "app://cb?x=1"
RedirectUris ==
    {<<"a","p","p",":","/","/","c","b">>,
     <<"a","p","p",":","/","/","c","b","?","x","=","1">>}
\* "id" stands for the provider's base URL
IiUris == {<<"i","d">>}
\* DER header of an Ed25519 public key, "302a300506032b6570032100"
DerPrefixHex ==
    <<"3","0","2","a","3","0","0","5","0","6","0","3",
      "2","b","6","5","7","0","0","3","2","1","0","0">>
\* a key of two bytes stands for the 32 bytes of a real key
RawKeyHex == <<"0","a","1","b">>
PubKeyParams == {DerPrefixHex \o RawKeyHex, RawKeyHex}

QueryStrings ==
    [redirect_uri : {Absent, Param(<<>>)} \cup {Param(u) : u \in RedirectUris},
     pubkey : {Absent, Param(<<>>)} \cup {Param(k) : k \in PubKeyParams},
     ii_uri : {Absent, Param(<<>>)} \cup {Param(u) : u \in IiUris}]

\* fromHex: two hex digits make one byte
FromHex(text) == [i \in 1..(Len(text) \div 2) |-> <<text[2 * i - 1], text[2 * i]>>]
\* Ed25519PublicKey.fromDer: the header must be there, the rest is the key
FromDer(bytes) ==
    LET header == FromHex(DerPrefixHex)
    IN IF Len(bytes) > Len(header) /\ SubSeq(bytes, 1, Len(header)) = header
       THEN [ok |-> TRUE, key |-> SubSeq(bytes, Len(header) + 1, Len(bytes))]
       ELSE [ok |-> FALSE, key |-> <<>>]

\* ------------------------------------------------------- error rendering
MissingParamsMessage == "Missing redirect_uri, pubkey, or ii_uri in query string"
\* formatError: the message is the concatenation of these parts
FormatError(prefix, message) == <<"Internet Identity ", prefix, ": ", message>>

\* the `#error` paragraph of the document, when it has one
ErrorElement(present) ==
    [present |-> present, textContent |-> <<>>, display |-> "none"]

\* the message is written but the element stays hidden
RenderErrorHidden(element, message) ==
    IF ~element.present THEN element
    ELSE [element EXCEPT !.textContent = message, !.display = "none"]

\* renderError: the `#error` element afterwards
RenderError(element, message) ==
    IF ~element.present THEN element
    ELSE [element EXCEPT !.textContent = message,
                         !.display = IF message # <<>> THEN "block" ELSE "none"]

\* ------------------------------------------------ PublicKeyOnlyIdentity
NoPageIdentity == [built |-> FALSE, publicKey |-> <<>>]
PublicKeyOnlyIdentity(publicKey) == [built |-> TRUE, publicKey |-> publicKey]
GetPublicKey(id) == id.publicKey

Blobs == {"blobA", "blobB"}
SignError == "Cannot sign with incomplete identity"

\* an identity that signs with a key of its own
SignWithOwnKey(id, blob) ==
    [ok |-> TRUE, signature |-> <<id.publicKey, blob>>, error |-> ""]

\* sign: the promise it returns, settled
Sign(id, blob) ==
    [ok |-> FALSE, signature |-> <<>>, error |-> SignError]

\* the test of parseParams ignores ii_uri
ParamsMissingButIiUri(q) == Falsy(q.redirect_uri) \/ Falsy(q.pubkey)

\* parseParams, line 38
ParamsMissing(q) == Falsy(q.redirect_uri) \/ Falsy(q.pubkey) \/ Falsy(q.ii_uri)

\* ---------------------------------------------------- delegation chains
HexTexts == {<<"a","b">>, <<"0","f">>}
SignedDelegations ==
    [delegation : [expiration : {<<"1","7">>}, pubkey : {RawKeyHex}],
     signature : HexTexts]
DelegationChains ==
    [delegations : UNION {[1..n -> SignedDelegations] : n \in 1..MaxChainLen},
     publicKey : {<<"c","d">>}]
NoDelegation == [delegations |-> <<>>, publicKey |-> <<>>]

DelegationsName == <<"d","e","l","e","g","a","t","i","o","n","s">>
DelegationName == <<"d","e","l","e","g","a","t","i","o","n">>
ExpirationName == <<"e","x","p","i","r","a","t","i","o","n">>
PubkeyName == <<"p","u","b","k","e","y">>
SignatureName == <<"s","i","g","n","a","t","u","r","e">>
PublicKeyName == <<"p","u","b","l","i","c","K","e","y">>

\* DelegationChain.toJSON
ToJSON(chain) ==
    JObject(<<
        <<DelegationsName,
          JArray([i \in 1..Len(chain.delegations) |->
              LET sd == chain.delegations[i]
              IN JObject(<<
                    <<DelegationName,
                      JObject(<< <<ExpirationName, JString(sd.delegation.expiration)>>,
                                 <<PubkeyName, JString(sd.delegation.pubkey)>> >>)>>,
                    <<SignatureName, JString(sd.signature)>> >>)])>>,
        <<PublicKeyName, JString(chain.publicKey)>> >>)

BuildRedirectURLWithDelegation(redirectUri, chain) ==
    redirectUri \o <<"?", "d","e","l","e","g","a","t","i","o","n", "=">>
        \o EncodeURIComponent(JSONStringify(ToJSON(chain)))

\* --------------------------------------------- the receiver of the URL
\* "?delegation=", the text the contract puts between redirect_uri and the
\* encoded delegation
DelegationMarker == <<"?">> \o DelegationName \o <<"=">>

\* index of the first occurrence of part in text, 0 when there is none
IndexOfText(text, part) ==
    LET at(i) == SubSeq(text, i, i + Len(part) - 1) = part
        places == {i \in 1..(Len(text) - Len(part) + 1) : at(i)}
    IN IF places = {} THEN 0
       ELSE CHOOSE i \in places : \A j \in places : i <= j

\* the delegation parameter of a URL of the form redirect_uri?delegation=...
DelegationParameter(url) ==
    LET i == IndexOfText(url, DelegationMarker)
    IN IF i = 0 THEN NoText
       ELSE [ok |-> TRUE,
             value |-> SubSeq(url, i + Len(DelegationMarker), Len(url))]

\* what the receiver of the navigation reads back from the URL
DelegationReadFrom(url) ==
    LET p == DelegationParameter(url)
        d == IF p.ok THEN DecodeURIComponent(p.value) ELSE NoText
    IN IF d.ok THEN JSONParse(d.value) ELSE NoParse

\* ------------------------------------------------------- the page script
\* the page as the browser has loaded it, before DOMContentLoaded
PageLoaded(q, button, errorParagraph) ==
    [pc |-> "loading",
     query |-> q,                  \* window.location.href
     hasLoginButton |-> button,    \* `#ii-login-button` is in the document
     identity |-> NoPageIdentity,  \* the PublicKeyOnlyIdentity of parseParams
     authClient |-> FALSE,         \* AuthClient.create was called
     listener |-> FALSE,           \* the click listener is attached
     logins |-> 0,                 \* calls of authClient.login
     pending |-> 0,                \* logins whose callbacks have not run
     errorElement |-> ErrorElement(errorParagraph),
     navigated |-> FALSE,          \* window.location.href was assigned
     location |-> <<>>,            \* the URL assigned
     delegation |-> NoDelegation,  \* the chain the provider returned
     signRequests |-> 0,           \* calls of identity.sign
     signRejections |-> 0,         \* of which rejected
     signatures |-> {},            \* signatures the identity produced
     lastEvent |-> "none"]

PageRuns == page.pc \notin {"absent", "navigated"}
OnlyPage == UNCHANGED <<isReady, identity, transportKey, authChanges,
                        backendPublicKey, aesKey, stateVars, refVars, rendered,
                        attempts, nAttempts, loggedOut>>

\* main's catch: renderError(formatError("initialization failed", error))
InitializationFailed(element, message) ==
    RenderError(element, FormatError("initialization failed", message))

\* DOMContentLoaded: main() runs up to `await AuthClient.create`
Main ==
    /\ page.pc = "loading"
    /\ LET q == page.query
           key == FromDer(FromHex(q.pubkey.value))
       IN IF ParamsMissing(q)
          THEN page' = [page EXCEPT
                  !.pc = "failed",
                  !.errorElement = InitializationFailed(
                        RenderError(page.errorElement, <<MissingParamsMessage>>),
                        MissingParamsMessage),
                  !.lastEvent = "missingParameter"]
          ELSE IF ~key.ok
               THEN page' = [page EXCEPT
                       !.pc = "failed",
                       !.errorElement = InitializationFailed(page.errorElement,
                                                             "invalid key"),
                       !.lastEvent = "invalidPublicKey"]
               ELSE page' = [page EXCEPT
                       !.pc = "creating",
                       !.identity = PublicKeyOnlyIdentity(key.key),
                       !.authClient = TRUE,
                       !.lastEvent = "parsed"]
    /\ OnlyPage

\* AuthClient.create resolves; the listener is attached to the button
AuthClientCreated ==
    /\ page.pc = "creating"
    /\ IF page.hasLoginButton
       THEN page' = [page EXCEPT !.pc = "ready", !.listener = TRUE,
                                 !.lastEvent = "listening"]
       ELSE page' = [page EXCEPT
               !.pc = "failed",
               !.errorElement = InitializationFailed(page.errorElement,
                                                     "loginButton is null"),
               !.lastEvent = "noLoginButton"]
    /\ OnlyPage

\* AuthClient.create rejects
AuthClientCreateFails ==
    /\ page.pc = "creating"
    /\ page' = [page EXCEPT
            !.pc = "failed",
            !.errorElement = InitializationFailed(page.errorElement,
                                                  "create failed"),
            !.lastEvent = "createFailed"]
    /\ OnlyPage

\* a click on the login button: renderError(""), authClient.login(...)
ClickLogin ==
    /\ page.pc = "ready"
    /\ page.listener
    /\ page.logins < MaxClicks
    /\ page' = [page EXCEPT
            !.errorElement = RenderError(page.errorElement, <<>>),
            !.logins = page.logins + 1,
            !.pending = page.pending + 1,
            !.lastEvent = "click"]
    /\ OnlyPage

\* onSuccess: the delegation is serialized and the page navigates
OnSuccess(chain) ==
    /\ page.pc = "ready"
    /\ page.pending > 0
    /\ page' = [page EXCEPT
            !.pc = "navigated",
            !.errorElement = RenderError(page.errorElement, <<>>),
            !.pending = page.pending - 1,
            !.delegation = chain,
            !.navigated = TRUE,
            !.location = BuildRedirectURLWithDelegation(
                             page.query.redirect_uri.value, chain),
            !.lastEvent = "navigated"]
    /\ OnlyPage

\* onSuccess, but getIdentity / getDelegation / toJSON throws
OnSuccessThrows ==
    /\ page.pc = "ready"
    /\ page.pending > 0
    /\ page' = [page EXCEPT
            !.errorElement = RenderError(
                  RenderError(page.errorElement, <<>>),
                  FormatError("delegation retrieval failed", "no delegation")),
            !.pending = page.pending - 1,
            !.lastEvent = "serializationFailed"]
    /\ OnlyPage

\* onError(error?): the provider rejected, or the user cancelled
OnError(providerError) ==
    /\ page.pc = "ready"
    /\ page.pending > 0
    /\ page' = [page EXCEPT
            !.errorElement = RenderError(page.errorElement,
                  FormatError("authentication rejected",
                              IF providerError # "" THEN providerError
                              ELSE "Unknown error")),
            !.pending = page.pending - 1,
            !.lastEvent = "providerRejected"]
    /\ OnlyPage

\* authClient.login itself throws
LoginThrows ==
    /\ page.pc = "ready"
    /\ page.pending > 0
    /\ page' = [page EXCEPT
            !.errorElement = RenderError(page.errorElement,
                  FormatError("login process failed", "login threw")),
            !.pending = page.pending - 1,
            !.lastEvent = "loginThrew"]
    /\ OnlyPage

\* somebody who holds the identity (the auth client, an agent) asks it to sign
SignRequested(blob) ==
    /\ PageRuns
    /\ page.identity.built
    /\ page.signRequests < MaxSignRequests
    /\ LET result == Sign(page.identity, blob)
       IN page' = [page EXCEPT
               !.signRequests = page.signRequests + 1,
               !.signRejections = IF result.ok THEN page.signRejections
                                  ELSE page.signRejections + 1,
               !.signatures = IF result.ok
                              THEN page.signatures \cup {result.signature}
                              ELSE page.signatures]
    /\ OnlyPage

ProviderErrors == {"", "UserInterrupt"}

InitPage ==
    /\ InitRootLayoutNav
    /\ loggedOut = NoLoggedOut
    /\ page \in {PageLoaded(q, b, e) : q \in QueryStrings, b \in BOOLEAN,
                                       e \in BOOLEAN}

NextPage ==
    \/ Main
    \/ AuthClientCreated
    \/ AuthClientCreateFails
    \/ ClickLogin
    \/ \E chain \in DelegationChains : OnSuccess(chain)
    \/ OnSuccessThrows
    \/ \E e \in ProviderErrors : OnError(e)
    \/ LoginThrows
    \/ \E blob \in Blobs : SignRequested(blob)

SpecPage == InitPage /\ [][NextPage]_vars



\* ===================================================================
\* components/LoggedOut.tsx
\* ===================================================================
\* calls of onLogin on one mount of the component
MaxLogins == 3

\* error.message of a rejected onLogin
LoginErrorMessages == {"popup closed", "network"}
LoginErrorText(message) == <<"Error occurred during login: ", message>>

\* the component after its first render
LoggedOutMounted ==
    [mounted |-> TRUE,
     busy |-> FALSE,               \* useState(false)
     error |-> <<>>,               \* useState<string | undefined>()
     rendered |-> [busy |-> FALSE, error |-> <<>>],  \* what is on screen
     logins |-> 0,                 \* calls of onLogin
     pending |-> 0,                \* of which not settled
     lastSettled |-> "none"]       \* how the latest settled call ended

OnlyLoggedOut == UNCHANGED <<isReady, identity, transportKey, authChanges,
                             backendPublicKey, aesKey, stateVars, refVars,
                             rendered, attempts, nAttempts, page>>

\* the Pressable is pressed: it reacts unless the tree on screen disables it
HandlePress ==
    /\ loggedOut.mounted
    /\ ~loggedOut.rendered.busy
    /\ loggedOut.logins < MaxLogins
    /\ loggedOut' = [loggedOut EXCEPT
            !.busy = TRUE,
            !.error = <<>>,
            !.logins = loggedOut.logins + 1,
            !.pending = loggedOut.pending + 1]
    /\ OnlyLoggedOut

\* onLogin() resolves: only .finally runs
OnLoginResolves ==
    /\ loggedOut.mounted
    /\ loggedOut.pending > 0
    /\ loggedOut' = [loggedOut EXCEPT
            !.busy = FALSE,
            !.pending = loggedOut.pending - 1,
            !.lastSettled = "resolved"]
    /\ OnlyLoggedOut

\* onLogin() rejects: .catch, then .finally
OnLoginRejects(message) ==
    /\ loggedOut.mounted
    /\ loggedOut.pending > 0
    /\ loggedOut' = [loggedOut EXCEPT
            !.busy = FALSE,
            !.error = LoginErrorText(message),
            !.pending = loggedOut.pending - 1,
            !.lastSettled = "rejected"]
    /\ OnlyLoggedOut

\* React renders the component with the current state
RenderLoggedOut ==
    /\ loggedOut.mounted
    /\ loggedOut.rendered # [busy |-> loggedOut.busy, error |-> loggedOut.error]
    /\ loggedOut' = [loggedOut EXCEPT
            !.rendered = [busy |-> loggedOut.busy, error |-> loggedOut.error]]
    /\ OnlyLoggedOut

InitLoggedOut ==
    /\ InitRootLayoutNav
    /\ page = NoPage
    /\ loggedOut = LoggedOutMounted

NextLoggedOut ==
    \/ HandlePress
    \/ OnLoginResolves
    \/ \E message \in LoginErrorMessages : OnLoginRejects(message)
    \/ RenderLoggedOut

SpecLoggedOut == InitLoggedOut /\ [][NextLoggedOut]_vars



\* C1: at most one bootstrap attempt is in flight at any time, whatever the
\* order of triggers, renders and completions.
C1_AtMostOneAttemptInFlight ==
    Cardinality({a \in AttemptIds : InFlight(a)}) <= 1

\* C2: a reply of fetchKeys with exactly one of encryptedAesKey and
\* encryptedKey ends the attempt in Failed with MalformedResponse, without
\* generating a key and without calling saveEncryptedKey.
C2_PartialMaterialIsMalformed ==
    \A a \in AttemptIds :
        LET r == attempts[a]
        IN (r.detail /\ r.replied /\ r.encrypted_aes_key # r.encrypted_key) =>
              /\ r.pc = "done"
              /\ r.outcome = "Failed"
              /\ r.err = "MalformedResponse"
              /\ r.key = NoKey
              /\ r.saveCalls = 0

\* C3: an attempt of initAesKey that sees no identity generates the key
\* locally, never calls fetchKeys or saveEncryptedKey, and ends Completed
\* (Failed only when the local generation itself throws).
C3_NoIdentityGeneratesLocally ==
    \A a \in AttemptIds :
        LET r == attempts[a]
        IN (r.detail /\ r.trigger \in {"auto", "retry"} /\ r.identity = NoIdentity)
              => LocalPathOf(a)

C3_Witness ==
    \E a \in AttemptIds :
        /\ attempts[a].detail
        /\ attempts[a].trigger = "auto"
        /\ attempts[a].identity = NoIdentity
        /\ attempts[a].outcome = "Completed"
        /\ aesKey = GeneratedKey(a)
        /\ Status = "Completed"

\* C4: with an identity and a reply carrying neither wrapped field, the
\* attempt generates a new key, encrypts it under the public key of the
\* reply, calls saveEncryptedKey exactly once with that ciphertext and ends
\* Completed (Failed only when generation or the save itself fails).
C4_NoMaterialGeneratesAndSavesOnce ==
    \A a \in AttemptIds :
        LET r == attempts[a]
        IN (r.detail /\ r.replied /\ ~r.encrypted_aes_key /\ ~r.encrypted_key) =>
              /\ r.identity # NoIdentity
              /\ r.fetchCalls = 1
              /\ r.pc \in {"genEnc", "save", "done"}
              /\ r.pc = "genEnc" => r.saveCalls = 0 /\ r.key = NoKey
              /\ (r.pc = "save" \/ (r.pc = "done" /\ r.outcome = "Completed")) =>
                    /\ r.saveCalls = 1
                    /\ r.key = GeneratedKey(a)
                    /\ r.saved = EncryptForRemote(r.key, r.public_key)
              /\ (r.pc = "done" /\ r.outcome = "Completed") => initializationCompleted
              /\ (r.pc = "done" /\ r.outcome = "Failed") =>
                    \/ r.err = "CryptoError" /\ r.saveCalls = 0
                    \/ r.err = "NetworkError" /\ r.saveCalls = 1

C4_Witness ==
    \E a \in AttemptIds :
        /\ attempts[a].detail
        /\ attempts[a].replied
        /\ ~attempts[a].encrypted_aes_key
        /\ ~attempts[a].encrypted_key
        /\ attempts[a].outcome = "Completed"
        /\ attempts[a].saved = EncryptForRemote(GeneratedKey(a), backendPublicKey)
        /\ Status = "Completed"

\* C5: with an identity and a reply carrying both wrapped fields, the attempt
\* has called fetchKeys exactly once, decrypts and stores the existing key,
\* never calls saveEncryptedKey and ends Completed (Failed only when the
\* decryption itself fails).
C5_ExistingMaterialIsDecrypted ==
    \A a \in AttemptIds :
        LET r == attempts[a]
        IN (r.detail /\ r.replied /\ r.encrypted_aes_key /\ r.encrypted_key) =>
              /\ r.identity # NoIdentity
              /\ r.fetchCalls = 1
              /\ r.saveCalls = 0
              /\ r.saved = NoCipher
              /\ r.pc \in {"decrypt", "done"}
              /\ r.pc = "decrypt" => r.key = NoKey
              /\ r.pc = "done" =>
                    \/ /\ r.outcome = "Completed"
                       /\ r.key = ExistingKey
                       /\ initializationCompleted
                    \/ /\ r.outcome = "Failed"
                       /\ r.err = "CryptoError"
                       /\ r.key = NoKey

C5_Witness ==
    \E a \in AttemptIds :
        /\ attempts[a].detail
        /\ attempts[a].replied
        /\ attempts[a].encrypted_aes_key
        /\ attempts[a].encrypted_key
        /\ attempts[a].outcome = "Completed"
        /\ aesKey = ExistingKey
        /\ Status = "Completed"

\* C6: when fetchKeys fails, the resulting state is Failed with that error
\* and the symmetric key store is empty.
C6_FetchFailureLeavesStoreEmpty ==
    [][\A a \in AttemptIds :
          (attempts[a].pc = "fetch" /\ attempts'[a].pc = "done") =>
              /\ ~isLoading'
              /\ error' = "NetworkError"
              /\ aesKey' = NoKey]_vars

\* C7: whenever the bootstrap status is Completed, the key store holds a
\* key that was generated locally or obtained by a successful decrypt.
C7_CompletedHoldsKey ==
    Status = "Completed" => aesKey.kind \in {"generated", "existing"}

\* C8: a failing step leaves the status Failed with the causing error and
\* with the stage description of the failed step on the status surface.
C8_FailureKeepsStage ==
    [][\A a \in AttemptIds :
          (attempts[a].pc # "done" /\ attempts'[a].pc = "done"
             /\ attempts'[a].outcome = "Failed") =>
              /\ ~isLoading'
              /\ error' = attempts'[a].err
              /\ initializationStatus' = attempts'[a].stage]_vars

\* C9: Retry starts an attempt that checks the identity and takes the path
\* of the automatic start; ContinueWithLocalKey generates a local key with
\* no call to fetchKeys or saveEncryptedKey whether or not an identity is
\* present, ending Completed on success and Failed on error.  Both are
\* offered only after an earlier attempt.
C9_RetryAndContinueWithLocalKey ==
    \A a \in AttemptIds :
        LET r == attempts[a]
        IN /\ (r.detail /\ r.trigger = "local") => LocalPathOf(a) /\ a > 1
           /\ (r.detail /\ r.trigger = "retry") =>
                 /\ a > 1
                 /\ r.identity = NoIdentity => LocalPathOf(a)
                 /\ r.identity # NoIdentity =>
                       \/ r.fetchCalls = 1 /\ r.tpk # NoPublicKey
                       \/ r.pc = "done" /\ r.err = "NotGenerated" /\ r.fetchCalls = 0

C9_Witness ==
    \E a \in AttemptIds :
        /\ attempts[a].detail
        /\ attempts[a].trigger = "local"
        /\ attempts[a].identity # NoIdentity
        /\ attempts[a].outcome = "Completed"
        /\ aesKey = GeneratedKey(a)
        /\ Status = "Completed"
        /\ \E b \in AttemptIds : attempts[b].trigger = "retry" /\ attempts[b].pc = "done"

\* C10: the automatic trigger starts an attempt only when the auth context
\* is ready and no attempt was ever started before; so it fires at most
\* once, and neither a failure nor a change of identity, loading flag or
\* callbacks makes it fire again.
C10_AutomaticStartOnlyOnce ==
    [][\A a \in AttemptIds :
          (attempts[a].pc = "idle" /\ attempts'[a].trigger = "auto") =>
              /\ isReady
              /\ ~initializationAttempted
              /\ nAttempts = 0]_vars

C10_Witness ==
    /\ nAttempts = 1
    /\ attempts[1].trigger = "auto"
    /\ attempts[1].outcome = "Failed"
    /\ authChanges > 0
    /\ ~RenderPending
    /\ rendered.screen = "error"

\* C15: whenever an attempt issues fetchKeys, the symmetric key store is
\* empty in that very step: the clear of line 96 precedes the call with no
\* key set in between, on the first attempt and on every Retry.
C15_StoreEmptyWhenFetchIssued ==
    [][\A a \in AttemptIds :
          (attempts[a].fetchCalls = 0 /\ attempts'[a].fetchCalls = 1) =>
              /\ attempts'[a].pc = "fetch"
              /\ aesKey' = NoKey]_vars

C15_Witness ==
    \E a, b \in AttemptIds :
        /\ attempts[b].detail
        /\ attempts[b].pc = "done"
        /\ attempts[b].key # NoKey
        /\ attempts[a].trigger = "retry"
        /\ attempts[a].pc = "fetch"
        /\ aesKey = NoKey

\* C16: every identity-present attempt hands fetchKeys a transport public
\* key of its own, so no two attempts use the same transport keypair.
C16_FreshTransportKeyPerAttempt ==
    \A a, b \in AttemptIds :
        (a # b /\ attempts[a].fetchCalls = 1 /\ attempts[b].fetchCalls = 1)
            => attempts[a].tpk # attempts[b].tpk

\* C17: on the path without wrapped material the generated key is in the
\* store only after saveEncryptedKey succeeded; while the save is pending,
\* and after a failed save, the store does not hold it.
C17_KeyStoredOnlyAfterSave ==
    \A a \in AttemptIds :
        LET r == attempts[a]
        IN (r.detail /\ r.saveCalls = 1
              /\ (r.pc = "save" \/ (r.pc = "done" /\ r.outcome = "Failed")))
              => aesKey # GeneratedKey(a)

\* C19: the application content is on screen only when the bootstrap has
\* Completed and the symmetric key is present.
C19_AppOnlyWhenCompleted ==
    rendered.screen = "app" => (Status = "Completed" /\ aesKey # NoKey)

\* C18: every started attempt eventually ends, Completed or Failed, and
\* once no attempt is in flight the loading flag is down.
C18_EveryAttemptEnds ==
    /\ \A a \in AttemptIds :
          InFlight(a) ~> (Done(a) /\ attempts[a].outcome \in {"Completed", "Failed"})
    /\ []((\A a \in AttemptIds : ~InFlight(a)) => ~isLoading)

C18_Witness ==
    /\ \E a \in AttemptIds : attempts[a].trigger = "auto" /\ attempts[a].outcome = "Failed"
    /\ \E a \in AttemptIds : attempts[a].trigger = "local" /\ attempts[a].outcome = "Completed"
    /\ \A a \in AttemptIds : ~InFlight(a)
    /\ ~isLoading

\* C11: on a page whose query string lacks redirect_uri, pubkey or ii_uri,
\* the script ends with the missing-parameter error on display; no
\* public-key-only identity is built, AuthClient.create is not called, no
\* click listener is attached, no provider login starts and the page never
\* navigates.
C11_MissingParameterStopsThePage ==
    (/\ page.pc # "absent"
     /\ \/ ~page.query.redirect_uri.present
        \/ ~page.query.pubkey.present
        \/ ~page.query.ii_uri.present)
    => /\ page.pc \in {"loading", "failed"}
       /\ page.pc = "failed" =>
            /\ page.lastEvent = "missingParameter"
            /\ page.errorElement.present =>
                  /\ page.errorElement.display = "block"
                  /\ \E i \in 1..Len(page.errorElement.textContent) :
                        page.errorElement.textContent[i] = MissingParamsMessage
       /\ ~page.identity.built
       /\ ~page.authClient
       /\ ~page.listener
       /\ page.logins = 0
       /\ page.signRequests = 0
       /\ ~page.navigated

\* the script has run on a page where only ii_uri is missing
C11_Witness ==
    /\ page.pc = "failed"
    /\ page.lastEvent = "missingParameter"
    /\ page.errorElement.display = "block"
    /\ ~page.query.ii_uri.present
    /\ page.query.redirect_uri.value \in RedirectUris
    /\ page.query.pubkey.value = DerPrefixHex \o RawKeyHex

\* the ways a page load or a login can fail
PageFailures ==
    {"missingParameter", "invalidPublicKey", "noLoginButton", "createFailed",
     "providerRejected", "loginThrew", "serializationFailed"}

C13_DelegationRoundTrip ==
    (page.pc # "absent" /\ page.navigated) =>
        LET redirectUri == page.query.redirect_uri.value
            url == page.location
            head == Len(redirectUri) + Len(DelegationMarker)
            parameter == DelegationParameter(url)
            read == DelegationReadFrom(url)
        IN /\ Len(url) > head
           /\ SubSeq(url, 1, Len(redirectUri)) = redirectUri
           /\ SubSeq(url, Len(redirectUri) + 1, head) = DelegationMarker
           /\ parameter.ok
           /\ parameter.value = SubSeq(url, head + 1, Len(url))
           /\ \A i \in 1..Len(parameter.value) :
                 parameter.value[i] \in Unreserved \cup {"%"}
           /\ read.ok
           /\ read.value = ToJSON(page.delegation)

\* the page has navigated with a chain, from a redirect_uri that already
\* carries a query
C13_Witness ==
    /\ page.navigated
    /\ page.delegation \in DelegationChains
    /\ page.query.redirect_uri.value =
          <<"a","p","p",":","/","/","c","b","?","x","=","1">>
    /\ Len(page.location) > 100

\* C14: once built, the public-key-only identity stays as it was built, its
\* getPublicKey is the key of the pubkey parameter (the bytes after the DER
\* header), and every sign request, for any blob and in any state of the
\* page, is rejected: the identity never produces a signature.
C14_PublicKeyOnlyIdentityNeverSigns ==
    [][/\ page.pc # "absent" /\ page.identity.built =>
            page'.identity = page.identity
       /\ page'.pc # "absent" /\ page'.identity.built =>
            /\ page'.query.pubkey.value = DerPrefixHex \o RawKeyHex
            /\ GetPublicKey(page'.identity) = <<<<"0", "a">>, <<"1", "b">>>>
            /\ page'.signatures = {}
            /\ page'.signRejections = page'.signRequests
       /\ (page.pc # "absent" /\ page'.signRequests = page.signRequests + 1) =>
            page'.signRejections = page.signRejections + 1]_vars

\* the identity was asked to sign before and during a provider login
C14_Witness ==
    /\ page.identity.built
    /\ page.pc = "ready"
    /\ page.pending > 0
    /\ page.signRequests = MaxSignRequests
    /\ page.signRejections = MaxSignRequests

\* C20: a press of Log in sets busy, clears the error and starts onLogin
\* only when no earlier onLogin is pending; when onLogin settles busy is
\* false again, and an error text is held exactly when that call rejected.
C20_OneLoginAtATime ==
    [][/\ (loggedOut.mounted /\ loggedOut'.logins = loggedOut.logins + 1) =>
            /\ loggedOut'.busy
            /\ loggedOut'.error = <<>>
            /\ loggedOut.pending = 0
       /\ (loggedOut.mounted /\ loggedOut'.pending = loggedOut.pending - 1) =>
            /\ ~loggedOut'.busy
            /\ (loggedOut'.error # <<>>) <=> (loggedOut'.lastSettled = "rejected")]_vars

====
